---- MODULE Spec2Model ----
(***************************************************************************)
(* Model of packages/expo-optimize/src/assets.ts: the content-addressed    *)
(* asset optimization engine (optimizeAsync), its persisted state          *)
(* (.expo-shared/assets.json), asset selection (getAssetFilesAsync,        *)
(* filterImages) and the file tree it works on.                            *)
(*                                                                         *)
(* A path is a record [dir, name, orig, ext]: <dir>/<name>(.orig)^orig.ext *)
(* File content is a number 0..MaxContent; the file tree fs is a partial   *)
(* function from paths to contents.  assets.json maps hash keys to true,   *)
(* so it is modelled as the set of its keys.                               *)
(***************************************************************************)
EXTENDS FiniteSets, Integers, Sequences, TLC

\* ---------------------------------------------------------------- bounds
MaxContent == 2   \* file contents are 0..MaxContent
MaxOrig == 1      \* deepest .orig nesting the file tree may hold
MaxEdits == 1     \* edits the developer makes to the tree between runs

VARIABLES
  fs,            \* file tree: path -> content, for the files that exist
  patterns,      \* exp.assetBundlePatterns of app.json
  options,       \* OptimizationOptions of the invocation
  stateExists,   \* .expo-shared/assets.json exists
  stateFile,     \* keys of assets.json on disk
  pending,       \* writes of assets.json issued and not yet on disk
  pc,            \* position of optimizeAsync
  assetInfo,     \* in-memory mapping (its keys)
  outdated,      \* Set<string> outdated
  allFiles,      \* allFiles returned by getAssetFilesAsync
  selectedFiles, \* selectedFiles returned by getAssetFilesAsync
  hashes,        \* hashes: filePath -> hash
  images,        \* the working set iterated by the loop
  idx,           \* position of the loop in images
  optimized,     \* content of the compressor's output file
  totalSaved,    \* totalSaved
  edits,         \* number of developer edits made so far
  hist           \* observations of the current run (history only)

vars == <<fs, patterns, options, stateExists, stateFile, pending, pc,
          assetInfo, outdated, allFiles, selectedFiles, hashes, images, idx,
          optimized, totalSaved, edits, hist>>

\* ------------------------------------------------------------ data model
Contents == 0..MaxContent

\* statSync(path).size: contents 0 and 1 are one byte long, 2 and 3 two, ...
Size(c) == (c \div 2) + 1

NoContent == -1

Names == {"a", "b"}

Path(d, n, o, e) == [dir |-> d, name |-> n, orig |-> o, ext |-> e]

BasePaths == {Path("assets", n, 0, "png") : n \in Names}

EnginePaths == {Path("assets", n, o, "png") : n \in Names, o \in 0..MaxOrig}

RECURSIVE SetToSeq(_)
SetToSeq(S) ==
  IF S = {} THEN <<>>
  ELSE LET x == CHOOSE y \in S : TRUE IN <<x>> \o SetToSeq(S \ {x})

Range(s) == {s[i] : i \in 1..Len(s)}

\* the project tree of the selection examples: images, an image with an
\* upper-case extension, a file that is no image, an image of a dependency
SelectionPaths ==
  {Path("assets", "logo", 0, "png"), Path("assets", "icon", 0, "png"),
   Path("assets", "photo", 0, "jpg"), Path("assets", "shot", 0, "PNG"),
   Path("assets", "notes", 0, "txt"), Path("node_modules", "dep", 0, "png")}

\* glob walks the tree in one fixed order
DiscoveryOrder == SetToSeq(EnginePaths \cup SelectionPaths)

\* calculateHash: the sha256 of the bytes; a key of assets.json
calculateHash(c) == <<"sha256", c>>

\* hashes[image] of a path that was never hashed is undefined, and
\* assetInfo[undefined] is the property named "undefined"
UndefinedKey == <<"undefined", NoContent>>

HashKeys == {calculateHash(c) : c \in Contents}

\* createNewFilename: <dir>/<name>.orig<ext>
createNewFilename(p) == [p EXCEPT !.orig = @ + 1]

\* ------------------------------------------------------------- selection
NoPattern == [kind |-> "none", name |-> "", ext |-> ""]
AnyPattern == [kind |-> "any", name |-> "", ext |-> ""]
ExtPattern(e) == [kind |-> "ext", name |-> "", ext |-> e]
FilePattern(n, e) == [kind |-> "file", name |-> n, ext |-> e]

\* minimatch of one relative path against one glob:
\*   any  = **/*     ext = **/*.<ext>     file = **/<name>.<ext>
Matches(pat, p) ==
  CASE pat.kind = "any" -> TRUE
    [] pat.kind = "ext" -> p.ext = pat.ext
    [] pat.kind = "file" -> p.name = pat.name /\ p.ext = pat.ext /\ p.orig = 0
    [] OTHER -> FALSE

IgnoredDirs == {"node_modules", "ios", "android", "web-build"}

\* glob.sync(pattern, globOptions): the existing files matching the pattern
\* outside the ignored directories, in discovery order
Glob(pat, tree) ==
  LET Hit(p) == p \in DOMAIN tree /\ p.dir \notin IgnoredDirs /\ Matches(pat, p)
  IN SelectSeq(DiscoveryOrder, Hit)

toLowerCase(e) ==
  CASE e = "PNG" -> "png"
    [] e = "JPG" -> "jpg"
    [] e = "JPEG" -> "jpeg"
    [] OTHER -> e

filterImages(files) ==
  LET IsImage(p) == toLowerCase(p.ext) \in {"png", "jpg", "jpeg"}
  IN SelectSeq(files, IsImage)

RECURSIVE Concat(_)
Concat(ss) == IF ss = <<>> THEN <<>> ELSE Head(ss) \o Concat(Tail(ss))

getAssetFilesAsync(tree, pats, opts) ==
  LET all == Concat([i \in 1..Len(pats) |-> Glob(pats[i], tree)])
      included == IF opts.include # NoPattern THEN Glob(opts.include, tree) ELSE all
      toExclude == IF opts.exclude # NoPattern THEN Range(Glob(opts.exclude, tree)) ELSE {}
      Keep(p) == p \notin toExclude
      excluded == SelectSeq(included, Keep)
      filtered == IF opts.exclude # NoPattern THEN excluded ELSE included
  IN [allFiles |-> filterImages(all), selectedFiles |-> filterImages(filtered)]

\* --------------------------------------------------------------- inputs
BundleConfigs == {<<AnyPattern>>, <<FilePattern("a", "png")>>}

IncludeChoices == {NoPattern, FilePattern("b", "png")}
ExcludeChoices == {NoPattern, FilePattern("b", "png")}

\* one filter at a time
OptionChoices ==
  {o \in [include : IncludeChoices, exclude : ExcludeChoices, save : BOOLEAN] :
     o.include = NoPattern \/ o.exclude = NoPattern}

\* trees of the base paths
Trees(paths) ==
  UNION {[S -> Contents] : S \in SUBSET paths}

\* an edit of the tree by the developer: what was done, to which path, and
\* the content the path held or received
NoEdit == [kind |-> "none", path |-> Path("", "", 0, ""), content |-> NoContent]
Edit(k, p, c) == [kind |-> k, path |-> p, content |-> c]

\* what a run had done when isAvailableAsync() answered false: the number of
\* compressor calls, the tree and the in-memory mapping
NoStop == [calls |-> -1, fs |-> << >>, assetInfo |-> {}]

\* a call of isProjectOptimized: how the run before it ended, the answer,
\* and what the call found on disk
NoCheck ==
  [after |-> "none", result |-> FALSE, exists |-> FALSE, file |-> {},
   fs |-> << >>]

\* hist records, for the current run: the tree and the mapping it started
\* from, the compressor calls, the commits, the paths improved, the new
\* hashes finalized, whether it repeats the completed run before it,
\* the last edit made before it, the last edit made since it started and
\* where it stood when the compressor was found unavailable; for a call of
\* isProjectOptimized, the call
NoHist ==
  [fs0 |-> << >>, loaded |-> {}, calls |-> <<>>, commits |-> 0,
   improved |-> {}, newHashes |-> {}, repeat |-> FALSE,
   preEdit |-> NoEdit, edit |-> NoEdit, stopped |-> NoStop, check |-> NoCheck]

\* ----------------------------------------------------------------- Init
Init ==
  /\ fs \in Trees(BasePaths)
  /\ patterns \in BundleConfigs
  /\ options = [include |-> NoPattern, exclude |-> NoPattern, save |-> FALSE]
  /\ stateExists \in BOOLEAN
  /\ stateFile \in (IF stateExists THEN SUBSET HashKeys ELSE {{}})
  /\ pending = <<>>
  /\ pc = "idle"
  /\ assetInfo = {}
  /\ outdated = {}
  /\ allFiles = <<>>
  /\ selectedFiles = <<>>
  /\ hashes = << >>
  /\ images = <<>>
  /\ idx = 1
  /\ optimized = NoContent
  /\ totalSaved = 0
  /\ edits = 0
  /\ hist = NoHist

Running == pc \in {"loaded", "loop", "moved1", "moved2"}

\* how the last run of optimizeAsync ended, calls of isProjectOptimized
\* since then left aside
LastRun == IF pc = "checked" THEN hist.check.after ELSE pc

\* hashes[image]
HashOf(image) == IF image \in DOMAIN hashes THEN hashes[image] ELSE UndefinedKey

\* ------------------------------------------------------- optimizeAsync
\* readAssetJsonAsync and the copy of its keys into outdated
Load ==
  /\ ~Running
  /\ pending = <<>>
  /\ stateExists' = TRUE
  /\ stateFile' = (IF stateExists THEN stateFile ELSE {})
  /\ assetInfo' = stateFile'
  /\ outdated' = stateFile'
  /\ pc' = "loaded"
  /\ totalSaved' = 0
  /\ allFiles' = <<>>
  /\ selectedFiles' = <<>>
  /\ hashes' = << >>
  /\ images' = <<>>
  /\ idx' = 1
  /\ optimized' = NoContent
  /\ options' \in OptionChoices
  /\ hist' = [NoHist EXCEPT !.fs0 = fs, !.loaded = stateFile',
                            !.preEdit = hist.edit,
                            !.repeat = (LastRun = "done" /\ hist.edit = NoEdit
                                        /\ options' = options)]
  /\ UNCHANGED <<fs, patterns, pending, edits>>

\* Scan as it would be without the deletion of the outdated keys
ScanWithoutEviction ==
  /\ pc = "loaded"
  /\ LET found == getAssetFilesAsync(fs, patterns, options)
         hs == [p \in Range(found.allFiles) |-> calculateHash(fs[p])]
     IN /\ allFiles' = found.allFiles
        /\ selectedFiles' = found.selectedFiles
        /\ hashes' = hs
        /\ images' = (IF options.include # NoPattern \/ options.exclude # NoPattern
                      THEN found.selectedFiles ELSE found.allFiles)
  /\ idx' = 1
  /\ pc' = "loop"
  /\ UNCHANGED <<fs, patterns, options, stateExists, stateFile, pending,
                 assetInfo, outdated, optimized, totalSaved, edits, hist>>

\* Scan as it would be if the outdated keys were those that no image of the
\* working set carries
ScanEvictsOverSelection ==
  /\ pc = "loaded"
  /\ LET found == getAssetFilesAsync(fs, patterns, options)
         hs == [p \in Range(found.allFiles) |-> calculateHash(fs[p])]
         imgs == IF options.include # NoPattern \/ options.exclude # NoPattern
                 THEN found.selectedFiles ELSE found.allFiles
         live == {hs[p] : p \in DOMAIN hs \cap Range(imgs)} \cap assetInfo
     IN /\ allFiles' = found.allFiles
        /\ selectedFiles' = found.selectedFiles
        /\ hashes' = hs
        /\ outdated' = outdated \ live
        /\ assetInfo' = assetInfo \ (outdated \ live)
        /\ images' = imgs
  /\ idx' = 1
  /\ pc' = "loop"
  /\ UNCHANGED <<fs, patterns, options, stateExists, stateFile, pending,
                 optimized, totalSaved, edits, hist>>

\* getAssetFilesAsync, the hashing of allFiles, the eviction of outdated
\* keys and the choice of the working set
Scan ==
  /\ pc = "loaded"
  /\ LET found == getAssetFilesAsync(fs, patterns, options)
         hs == [p \in Range(found.allFiles) |-> calculateHash(fs[p])]
         live == {hs[p] : p \in DOMAIN hs} \cap assetInfo
     IN /\ allFiles' = found.allFiles
        /\ selectedFiles' = found.selectedFiles
        /\ hashes' = hs
        /\ outdated' = outdated \ live
        /\ assetInfo' = assetInfo \ (outdated \ live)
        /\ images' = (IF options.include # NoPattern \/ options.exclude # NoPattern
                      THEN found.selectedFiles ELSE found.allFiles)
  /\ idx' = 1
  /\ pc' = "loop"
  /\ UNCHANGED <<fs, patterns, options, stateExists, stateFile, pending,
                 optimized, totalSaved, edits, hist>>

InLoop == pc = "loop" /\ idx <= Len(images)

\* Skip as it would be if isAvailableAsync() were asked before the look-up
SkipAfterProbe ==
  /\ InLoop
  /\ HashOf(images[idx]) \in assetInfo
  /\ \/ /\ idx' = idx + 1
        /\ UNCHANGED <<pc, hist>>
     \/ /\ pc' = "aborted"
        /\ hist' = [hist EXCEPT !.stopped = [calls |-> Len(hist.calls), fs |-> fs,
                                             assetInfo |-> assetInfo]]
        /\ UNCHANGED idx
  /\ UNCHANGED <<fs, patterns, options, stateExists, stateFile, pending,
                 assetInfo, outdated, allFiles, selectedFiles, hashes, images,
                 optimized, totalSaved, edits>>

\* if (assetInfo[hash]) continue;
Skip ==
  /\ InLoop
  /\ HashOf(images[idx]) \in assetInfo
  /\ idx' = idx + 1
  /\ UNCHANGED <<fs, patterns, options, stateExists, stateFile, pending, pc,
                 assetInfo, outdated, allFiles, selectedFiles, hashes, images,
                 optimized, totalSaved, edits, hist>>

\* the loop's test without the look-up of assetInfo[hash]
UnfinalizedUnchecked == pc = "loop" /\ idx <= Len(images)

\* the loop is at an image whose hash is not in assetInfo
Unfinalized == InLoop /\ HashOf(images[idx]) \notin assetInfo

\* Unavailable as it would be if the early return fell through to the write
UnavailableThenCommit ==
  /\ Unfinalized
  /\ pending' = Append(pending, assetInfo)
  /\ pc' = "aborted"
  /\ UNCHANGED <<fs, patterns, options, stateExists, stateFile,
                 assetInfo, outdated, allFiles, selectedFiles, hashes, images,
                 idx, optimized, totalSaved, edits, hist>>

\* Unavailable as it would be if the loop went on to the next image
UnavailableSkipsImage ==
  /\ Unfinalized
  /\ idx' = idx + 1
  /\ hist' = [hist EXCEPT !.stopped = [calls |-> Len(hist.calls), fs |-> fs,
                                       assetInfo |-> assetInfo]]
  /\ UNCHANGED <<fs, patterns, options, stateExists, stateFile, pending, pc,
                 assetInfo, outdated, allFiles, selectedFiles, hashes, images,
                 optimized, totalSaved, edits>>

\* isAvailableAsync() is false: return
Unavailable ==
  /\ Unfinalized
  /\ pc' = "aborted"
  /\ hist' = [hist EXCEPT !.stopped = [calls |-> Len(hist.calls), fs |-> fs,
                                       assetInfo |-> assetInfo]]
  /\ UNCHANGED <<fs, patterns, options, stateExists, stateFile, pending,
                 assetInfo, outdated, allFiles, selectedFiles, hashes, images,
                 idx, optimized, totalSaved, edits>>

\* prevSize - newSize for the compressor's output out
AmountSaved(image, out) == Size(fs[image]) - Size(out)

\* a compressor call as the run saw it: the path, the bytes sent, and the
\* output when it was smaller than them (NoContent when it was not)
Call(image, out) ==
  [path |-> image, content |-> fs[image],
   smaller |-> IF AmountSaved(image, out) > 0 THEN out ELSE NoContent]

\* CompressKeep as it would be without assetInfo[hash] = true
CompressKeepForgets ==
  /\ Unfinalized
  /\ \E out \in Contents :
       /\ AmountSaved(images[idx], out) <= 0
       /\ hist' = [hist EXCEPT !.calls = Append(@, Call(images[idx], out))]
  /\ idx' = idx + 1
  /\ UNCHANGED <<fs, patterns, options, stateExists, stateFile, pending, pc,
                 assetInfo, outdated, allFiles, selectedFiles, hashes, images,
                 optimized, totalSaved, edits>>

\* isAvailableAsync() is true; sharp writes some bytes to a temporary file;
\* amountSaved <= 0: the original hash is finalized, the original stays
CompressKeep ==
  /\ Unfinalized
  /\ \E out \in Contents :
       /\ AmountSaved(images[idx], out) <= 0
       /\ hist' = [hist EXCEPT !.calls = Append(@, Call(images[idx], out))]
  /\ assetInfo' = assetInfo \cup {HashOf(images[idx])}
  /\ idx' = idx + 1
  /\ UNCHANGED <<fs, patterns, options, stateExists, stateFile, pending, pc,
                 outdated, allFiles, selectedFiles, hashes, images,
                 optimized, totalSaved, edits>>

Without(tree, p) == [q \in DOMAIN tree \ {p} |-> tree[q]]
With(tree, p, c) == [q \in DOMAIN tree \cup {p} |-> IF q = p THEN c ELSE tree[q]]

\* fs-extra move(src, dest) without overwrite
move(tree, src, dest) == With(Without(tree, src), dest, tree[src])

\* CompressMove as it would be if the compressed bytes were moved over the
\* original before any backup was made
CompressMoveWithoutBackup ==
  /\ Unfinalized
  /\ LET image == images[idx]
     IN \E out \in Contents :
          /\ AmountSaved(image, out) > 0
          /\ optimized' = out
          /\ hist' = [hist EXCEPT !.calls = Append(@, Call(image, out))]
          /\ fs' = With(fs, image, out)
  /\ pc' = "moved1"
  /\ UNCHANGED <<patterns, options, stateExists, stateFile, pending,
                 assetInfo, outdated, allFiles, selectedFiles, hashes, images,
                 idx, totalSaved, edits>>

\* CompressMove as it would be if the test were amountSaved >= 0
CompressMoveOnEqual ==
  /\ Unfinalized
  /\ LET image == images[idx]
         newName == createNewFilename(image)
     IN /\ newName.orig <= MaxOrig
        /\ \E out \in Contents :
             /\ AmountSaved(image, out) >= 0
             /\ optimized' = out
             /\ hist' = [hist EXCEPT !.calls = Append(@, Call(image, out))]
        /\ IF newName \in DOMAIN fs
           THEN /\ pc' = "failed"
                /\ UNCHANGED fs
           ELSE /\ fs' = move(fs, image, newName)
                /\ pc' = "moved1"
  /\ UNCHANGED <<patterns, options, stateExists, stateFile, pending,
                 assetInfo, outdated, allFiles, selectedFiles, hashes, images,
                 idx, totalSaved, edits>>

\* isAvailableAsync() is true; sharp writes some bytes to a temporary file;
\* amountSaved > 0: await move(image, newName), which rejects when the
\* destination exists
CompressMove ==
  /\ Unfinalized
  /\ LET image == images[idx]
         newName == createNewFilename(image)
     IN /\ newName.orig <= MaxOrig
        /\ \E out \in Contents :
             /\ AmountSaved(image, out) > 0
             /\ optimized' = out
             /\ hist' = [hist EXCEPT !.calls = Append(@, Call(image, out))]
        /\ IF newName \in DOMAIN fs
           THEN /\ pc' = "failed"
                /\ UNCHANGED fs
           ELSE /\ fs' = move(fs, image, newName)
                /\ pc' = "moved1"
  /\ UNCHANGED <<patterns, options, stateExists, stateFile, pending,
                 assetInfo, outdated, allFiles, selectedFiles, hashes, images,
                 idx, totalSaved, edits>>

\* await move(optimizedImage, image)
MoveOptimized ==
  /\ pc = "moved1"
  /\ fs' = With(fs, images[idx], optimized)
  /\ pc' = "moved2"
  /\ UNCHANGED <<patterns, options, stateExists, stateFile, pending,
                 assetInfo, outdated, allFiles, selectedFiles, hashes, images,
                 idx, optimized, totalSaved, edits, hist>>

\* Finalize as it would be if the backup were never unlinked
FinalizeKeepsBackup ==
  /\ pc = "moved2"
  /\ LET image == images[idx]
         newName == createNewFilename(image)
         hash == HashOf(image)
         newHash == calculateHash(fs[image])
         amountSaved == Size(fs[newName]) - Size(optimized)
     IN /\ assetInfo' = assetInfo \cup {newHash}
                          \cup (IF options.save /\ hash # newHash THEN {hash} ELSE {})
        /\ totalSaved' = totalSaved + amountSaved
        /\ hist' = [hist EXCEPT !.improved = @ \cup {image},
                                 !.newHashes = @ \cup {newHash}]
  /\ idx' = idx + 1
  /\ optimized' = NoContent
  /\ pc' = "loop"
  /\ UNCHANGED <<fs, patterns, options, stateExists, stateFile, pending,
                 outdated, allFiles, selectedFiles, hashes, images, edits>>

\* Finalize as it would be if the loop went on before assetInfo[newHash] was
\* set
FinalizeWithoutInsertion ==
  /\ pc = "moved2"
  /\ LET image == images[idx]
         newName == createNewFilename(image)
         hash == HashOf(image)
         newHash == calculateHash(fs[image])
         amountSaved == Size(fs[newName]) - Size(optimized)
     IN /\ assetInfo' = assetInfo
                          \cup (IF options.save /\ hash # newHash THEN {hash} ELSE {})
        /\ fs' = (IF options.save /\ hash # newHash THEN fs ELSE Without(fs, newName))
        /\ totalSaved' = totalSaved + amountSaved
        /\ hist' = [hist EXCEPT !.improved = @ \cup {image},
                                 !.newHashes = @ \cup {newHash}]
  /\ idx' = idx + 1
  /\ optimized' = NoContent
  /\ pc' = "loop"
  /\ UNCHANGED <<patterns, options, stateExists, stateFile, pending,
                 outdated, allFiles, selectedFiles, hashes, images, edits>>

\* the new hash is finalized; the backup is kept or unlinked; totalSaved
Finalize ==
  /\ pc = "moved2"
  /\ LET image == images[idx]
         newName == createNewFilename(image)
         hash == HashOf(image)
         newHash == calculateHash(fs[image])
         amountSaved == Size(fs[newName]) - Size(optimized)
     IN /\ assetInfo' = assetInfo \cup {newHash}
                          \cup (IF options.save /\ hash # newHash THEN {hash} ELSE {})
        /\ fs' = (IF options.save /\ hash # newHash THEN fs ELSE Without(fs, newName))
        /\ totalSaved' = totalSaved + amountSaved
        /\ hist' = [hist EXCEPT !.improved = @ \cup {image},
                                 !.newHashes = @ \cup {newHash}]
  /\ idx' = idx + 1
  /\ optimized' = NoContent
  /\ pc' = "loop"
  /\ UNCHANGED <<patterns, options, stateExists, stateFile, pending,
                 outdated, allFiles, selectedFiles, hashes, images, edits>>

\* Finish as it would be if the write were issued from inside the loop
FinishInsideLoop ==
  /\ pc = "loop"
  /\ pending' = Append(pending, assetInfo)
  /\ hist' = [hist EXCEPT !.commits = @ + 1]
  /\ pc' = "done"
  /\ UNCHANGED <<fs, patterns, options, stateExists, stateFile, assetInfo,
                 outdated, allFiles, selectedFiles, hashes, images, idx,
                 optimized, totalSaved, edits>>

\* the loop is over: assetJson.writeAsync(assetInfo), not awaited
Finish ==
  /\ pc = "loop"
  /\ idx > Len(images)
  /\ pending' = Append(pending, assetInfo)
  /\ hist' = [hist EXCEPT !.commits = @ + 1]
  /\ pc' = "done"
  /\ UNCHANGED <<fs, patterns, options, stateExists, stateFile, assetInfo,
                 outdated, allFiles, selectedFiles, hashes, images, idx,
                 optimized, totalSaved, edits>>

\* the write issued by writeAsync reaches the disk
Land ==
  /\ pending # <<>>
  /\ stateFile' = Head(pending)
  /\ pending' = Tail(pending)
  /\ UNCHANGED <<fs, patterns, options, stateExists, pc, assetInfo, outdated,
                 allFiles, selectedFiles, hashes, images, idx, optimized,
                 totalSaved, edits, hist>>

\* ---------------------------------------------------- isProjectOptimized
\* the value isProjectOptimized returns
ProjectOptimized(tree, exists, file, pats, opts) ==
  IF ~exists THEN FALSE
  ELSE \A f \in Range(getAssetFilesAsync(tree, pats, opts).selectedFiles) :
          calculateHash(tree[f]) \in file

\* isProjectOptimized as it would be if it read assets.json through
\* readAssetJsonAsync before it tested that the file exists
isProjectOptimizedCreates ==
  /\ ~Running
  /\ pending = <<>>
  /\ stateExists' = TRUE
  /\ stateFile' = (IF stateExists THEN stateFile ELSE {})
  /\ hist' = [NoHist EXCEPT !.edit = hist.edit, !.check =
                [after |-> LastRun,
                 result |-> ProjectOptimized(fs, stateExists, stateFile,
                                             patterns, options),
                 exists |-> stateExists, file |-> stateFile, fs |-> fs]]
  /\ pc' = "checked"
  /\ assetInfo' = {}
  /\ outdated' = {}
  /\ allFiles' = <<>>
  /\ selectedFiles' = <<>>
  /\ hashes' = << >>
  /\ images' = <<>>
  /\ idx' = 1
  /\ optimized' = NoContent
  /\ totalSaved' = 0
  /\ UNCHANGED <<fs, patterns, options, pending, edits>>

\* one call of isProjectOptimized(projectDir, options), with the options of
\* the run before it, made once the process before it has exited
isProjectOptimized ==
  /\ ~Running
  /\ pending = <<>>
  /\ hist' = [NoHist EXCEPT !.edit = hist.edit, !.check =
                [after |-> LastRun,
                 result |-> ProjectOptimized(fs, stateExists, stateFile,
                                             patterns, options),
                 exists |-> stateExists, file |-> stateFile, fs |-> fs]]
  /\ pc' = "checked"
  /\ assetInfo' = {}
  /\ outdated' = {}
  /\ allFiles' = <<>>
  /\ selectedFiles' = <<>>
  /\ hashes' = << >>
  /\ images' = <<>>
  /\ idx' = 1
  /\ optimized' = NoContent
  /\ totalSaved' = 0
  /\ UNCHANGED <<fs, patterns, options, stateExists, stateFile, pending,
                 edits>>

\* ---------------------------------------------------------- environment
\* the developer edits the tree between two invocations: the process of the
\* run before has exited, its write is on disk and its variables are gone
CanEdit == ~Running /\ pending = <<>> /\ edits < MaxEdits

DeleteFile ==
  /\ CanEdit
  /\ \E p \in DOMAIN fs :
       /\ fs' = Without(fs, p)
       /\ hist' = [NoHist EXCEPT !.edit = Edit("delete", p, fs[p])]
  /\ pc' = "idle"
  /\ assetInfo' = {}
  /\ outdated' = {}
  /\ allFiles' = <<>>
  /\ selectedFiles' = <<>>
  /\ hashes' = << >>
  /\ images' = <<>>
  /\ idx' = 1
  /\ optimized' = NoContent
  /\ totalSaved' = 0
  /\ edits' = edits + 1
  /\ UNCHANGED <<patterns, options, stateExists, stateFile, pending>>

RenameFile ==
  /\ CanEdit
  /\ \E p \in DOMAIN fs : \E q \in BasePaths \ DOMAIN fs :
       /\ fs' = move(fs, p, q)
       /\ hist' = [NoHist EXCEPT !.edit = Edit("rename", q, fs[p])]
  /\ pc' = "idle"
  /\ assetInfo' = {}
  /\ outdated' = {}
  /\ allFiles' = <<>>
  /\ selectedFiles' = <<>>
  /\ hashes' = << >>
  /\ images' = <<>>
  /\ idx' = 1
  /\ optimized' = NoContent
  /\ totalSaved' = 0
  /\ edits' = edits + 1
  /\ UNCHANGED <<patterns, options, stateExists, stateFile, pending>>

Next ==
  \/ Load
  \/ Scan
  \/ Skip
  \/ Unavailable
  \/ CompressKeep
  \/ CompressMove
  \/ MoveOptimized
  \/ Finalize
  \/ Finish
  \/ Land
  \/ isProjectOptimized
  \/ DeleteFile
  \/ RenameFile

Spec == Init /\ [][Next]_vars

TypeOK ==
  /\ DOMAIN fs \subseteq EnginePaths
  /\ \A p \in DOMAIN fs : fs[p] \in Contents
  /\ Len(pending) <= 1
  /\ assetInfo \subseteq HashKeys \cup {UndefinedKey}

\* ------------------------------------------------------------ properties
\* no edit was made to the tree since the current run started
Untouched == hist.edit = NoEdit

\* the paths sent to the Compressor by the current run
Called == {hist.calls[k].path : k \in 1..Len(hist.calls)}

\* C1 (as claimed): a run that repeats a completed run, with the same options
\* on the unchanged resulting tree and the committed state, invokes the
\* Compressor zero times, replaces no file and saves zero bytes.
C1_Idempotent ==
  hist.repeat => /\ hist.calls = <<>>
                 /\ totalSaved = 0
                 /\ (Untouched => fs = hist.fs0)

\* C2: every run commits at most once, and only once the loop has handled its
\* last asset: a run that completed the loop has committed exactly once, any
\* other run (one that aborted on an unavailable compressor included) zero
\* times.
C2_CommitOnce ==
  /\ hist.commits = (IF pc = "done" THEN 1 ELSE 0)
  /\ hist.commits = 1 => idx = Len(images) + 1
  /\ pc = "aborted" => pending = <<>> /\ stateFile = hist.loaded

\* a run completed its loop over a working set in which it compressed an
\* asset, and its one commit is in flight
C2_Witness ==
  /\ pc = "done"
  /\ hist.commits = 1
  /\ hist.calls # <<>>
  /\ pending = <<assetInfo>>

\* C3 (as claimed): what a run accumulated in memory before it aborted on an
\* unavailable compressor is committed all the same: the mapping is on its
\* way to the state file or already in it.
C3_AbortStillCommits ==
  pc = "aborted" => \/ pending = <<assetInfo>>
                    \/ stateFile = assetInfo

\* C3 (amended): a run that aborts on an unavailable compressor commits
\* nothing: the state file stays as it was loaded, whatever the run evicted
\* or finalized in memory before the abort.
C3_AbortCommitsNothing ==
  pc = "aborted" => /\ stateFile = hist.loaded
                    /\ pending = <<>>

\* a run aborted after it had changed the in-memory mapping
C3_Witness ==
  /\ pc = "aborted"
  /\ assetInfo # hist.loaded
  /\ stateFile = hist.loaded

\* the content hashes found by the scan of allFiles
ScanHashes == {hashes[p] : p \in DOMAIN hashes}

\* C4 (as claimed): a hash the run loaded from the state file that no file of
\* allFiles carries is absent from the state file once the run is over.
C4_StaleEvicted ==
  (pc \in {"done", "aborted", "failed"} /\ pending = <<>>) =>
     \A h \in (hist.loaded \cap HashKeys) \ ScanHashes : h \notin stateFile

\* C4 (amended): once a run has completed its loop and its commit is in the
\* state file, a hash it loaded that no file of allFiles carried is absent
\* from the state file, unless the run finalized that very hash again as the
\* new hash of a file it compressed.
C4_StaleEvictedOnCommit ==
  (pc = "done" /\ pending = <<>>) =>
     \A h \in (hist.loaded \cap HashKeys) \ ScanHashes :
        h \in stateFile => h \in hist.newHashes

\* the file carrying a persisted hash was deleted, the next run sent nothing
\* to the Compressor, and its commit dropped the hash
C4_Witness ==
  /\ pc = "done"
  /\ pending = <<>>
  /\ hist.preEdit.kind = "delete"
  /\ calculateHash(hist.preEdit.content) \in hist.loaded \ ScanHashes
  /\ calculateHash(hist.preEdit.content) \notin stateFile
  /\ hist.calls = <<>>

\* C5 (as claimed): after a completed run the keys of the state file are
\* exactly the content hashes of the discovered candidate files that exist
\* and were kept from the loaded state or finalized during the run.
C5_StateIsLiveCandidates ==
  (pc = "done" /\ pending = <<>> /\ Untouched) =>
     stateFile =
       {calculateHash(fs[p]) :
          p \in Range(getAssetFilesAsync(fs, patterns, options).allFiles)}
       \cap (hist.loaded \cup assetInfo)

\* the k-th compressor call of the run has been dealt with by the loop
Handled(k) == k < Len(hist.calls) \/ pc \in {"loop", "done", "aborted"}

\* C6 (as claimed): for every asset sent to the Compressor, with positive
\* savings the path holds the compressed bytes and their hash is finalized;
\* otherwise the path holds its bytes of before the run and the original hash
\* is finalized.
C6_ImprovementPolicy ==
  Untouched =>
    \A k \in 1..Len(hist.calls) :
      Handled(k) =>
        LET c == hist.calls[k] IN
          /\ c.path \in DOMAIN fs
          /\ IF c.smaller # NoContent
             THEN /\ fs[c.path] = c.smaller
                  /\ calculateHash(c.smaller) \in assetInfo
             ELSE /\ fs[c.path] = hist.fs0[c.path]
                  /\ calculateHash(hist.fs0[c.path]) \in assetInfo

\* C7: after a completed run, every asset improved in it has, under save with
\* a new hash different from the original one, a backup at <name>.orig<ext>
\* holding the bytes the asset had before the run, and without save no file
\* at <name>.orig<ext>.
C7_BackupRetention ==
  (pc = "done" /\ Untouched) =>
     \A p \in hist.improved :
       LET backup == createNewFilename(p) IN
         /\ (options.save /\ calculateHash(fs[p]) # calculateHash(hist.fs0[p]))
              => (backup \in DOMAIN fs /\ fs[backup] = hist.fs0[p])
         /\ ~options.save => backup \notin DOMAIN fs

\* a run with save completed after improving an asset, whose backup holds the
\* original bytes
C7_Witness ==
  /\ pc = "done"
  /\ Untouched
  /\ options.save
  /\ \E p \in hist.improved :
       /\ fs[p] # hist.fs0[p]
       /\ fs[createNewFilename(p)] = hist.fs0[p]

\* positions of two compressor calls of one run for two hashed files with
\* the same bytes
SameContentCalls ==
  {ij \in (1..Len(hist.calls)) \X (1..Len(hist.calls)) :
     /\ ij[1] < ij[2]
     /\ hist.calls[ij[1]].path \in DOMAIN hashes
     /\ hist.calls[ij[2]].path \in DOMAIN hashes
     /\ hist.calls[ij[1]].path # hist.calls[ij[2]].path
     /\ hist.calls[ij[1]].content = hist.calls[ij[2]].content}

\* C8 (as claimed): two files of the working set with the same bytes are one
\* cache entry, so within a run the Compressor is invoked for at most one of
\* them.
C8_OneCallPerContent == SameContentCalls = {}

\* C8 (amended): within a run the Compressor is invoked for a second file
\* with the same bytes only when the first one was improved without save, the
\* one case in which the original hash is not finalized.
C8_SecondCallOnlyAfterUnsavedImprovement ==
  \A ij \in SameContentCalls :
     /\ ~options.save
     /\ hist.calls[ij[1]].smaller # NoContent

\* two hashed files of the working set with the same bytes were handled: the
\* first went to the Compressor, the second was skipped
C8_Witness ==
  \E i, j \in 1..Len(images) :
     /\ i < j
     /\ j < idx
     /\ {images[i], images[j]} \subseteq DOMAIN hashes
     /\ hashes[images[i]] = hashes[images[j]]
     /\ images[i] \in Called
     /\ images[j] \notin Called

\* C9: a discovered file whose content hash was loaded from the state file
\* keeps its entry and is never sent to the Compressor, at whatever path it
\* now lies.
C9_SkipByContent ==
  \A p \in DOMAIN hashes :
     hashes[p] \in hist.loaded =>
        /\ p \notin Called
        /\ hashes[p] \in assetInfo
        /\ pc = "done" => hashes[p] \in (IF pending # <<>> THEN Head(pending) ELSE stateFile)

\* a file whose hash was in the state file was renamed, and the run that
\* followed had it in its working set and completed without compressing it
C9_Witness ==
  /\ pc = "done"
  /\ hist.preEdit.kind = "rename"
  /\ hist.preEdit.path \in Range(images) \cap DOMAIN hashes
  /\ calculateHash(hist.preEdit.content) \in hist.loaded
  /\ hist.preEdit.path \notin Called
  /\ calculateHash(hist.preEdit.content) \in assetInfo

\* C11: once isAvailableAsync() has answered false for an image that is not
\* finalized, the run is over: whatever images remain, no further image is
\* sent to the Compressor, no file is replaced and no key is added to the
\* in-memory mapping.
C11_FailFast ==
  hist.stopped # NoStop =>
     /\ pc = "aborted"
     /\ Len(hist.calls) = hist.stopped.calls
     /\ fs = hist.stopped.fs
     /\ assetInfo = hist.stopped.assetInfo

\* a run stopped on an unavailable compressor at the first of two images that
\* were both not finalized
C11_Witness ==
  /\ pc = "aborted"
  /\ hist.stopped # NoStop
  /\ Len(images) = 2
  /\ idx = 1
  /\ \A k \in 1..2 : HashOf(images[k]) \notin assetInfo

\* C12: a call of isProjectOptimized leaves assets.json as it found it,
\* absent if it was absent (the answer is then false) and with the same keys
\* if it was there, and leaves every file of the tree as it was.
C12_CheckReadOnly ==
  pc = "checked" =>
     /\ stateExists = hist.check.exists
     /\ stateFile = hist.check.file
     /\ fs = hist.check.fs
     /\ ~stateExists => ~hist.check.result

\* isProjectOptimized was called on a project with image files and without
\* assets.json
C12_Witness ==
  /\ pc = "checked"
  /\ ~hist.check.exists
  /\ ~stateExists
  /\ ~hist.check.result
  /\ DOMAIN fs # {}

\* C13: when the loop reaches an image whose hash is in the in-memory
\* mapping, the step it takes is a no-op: the loop moves on to the next
\* image; the run does not stop on an unavailable compressor, sends nothing
\* to the Compressor, leaves every file as it is, makes no backup and leaves
\* the mapping as it is.
C13_AlreadyOptimizedNoOp ==
  [][(InLoop /\ HashOf(images[idx]) \in assetInfo) =>
        /\ idx' = idx + 1
        /\ pc' = "loop"
        /\ fs' = fs
        /\ assetInfo' = assetInfo
        /\ hist'.calls = hist.calls
        /\ hist'.stopped = NoStop]_vars

\* the loop has passed a first image whose hash was loaded from the state
\* file, and nothing was sent to the Compressor
C13_Witness ==
  /\ pc = "loop"
  /\ idx = 2
  /\ HashOf(images[1]) \in hist.loaded \cap assetInfo
  /\ hist.calls = <<>>
  /\ fs = hist.fs0

\* C14: a run with an include or an exclude filter keeps every key it loaded
\* that is the content hash of a file of allFiles, whether the file is in the
\* working set or not: the key stays in the in-memory mapping and is in the
\* state file once the commit of the run has landed.
C14_EvictionOverAllCandidates ==
  (/\ pc \in {"loop", "moved1", "moved2", "done", "aborted", "failed"}
   /\ (options.include # NoPattern \/ options.exclude # NoPattern)) =>
     \A p \in Range(allFiles) :
        calculateHash(hist.fs0[p]) \in hist.loaded =>
           /\ calculateHash(hist.fs0[p]) \in assetInfo
           /\ (pc = "done" /\ pending = <<>>)
                 => calculateHash(hist.fs0[p]) \in stateFile

\* a run with an exclude filter completed and committed, and a file it
\* excluded still has its loaded key in the state file
C14_Witness ==
  /\ pc = "done"
  /\ pending = <<>>
  /\ options.exclude # NoPattern
  /\ \E p \in Range(allFiles) \ Range(images) :
       calculateHash(hist.fs0[p]) \in hist.loaded \cap stateFile

\* the position of a path in the working set
Pos(p) == CHOOSE j \in 1..Len(images) : images[j] = p

\* C15: when the loop takes its first decision the eviction is over (outdated
\* holds the loaded keys that no file of allFiles carries and the mapping
\* holds the others); the compressor calls follow the order of the working
\* set, each image before the position of the loop, the last one at it while
\* its replacement is under way; and whenever the loop is at a look-up every
\* call made so far is complete: the compressed bytes are at the path and
\* their hash is in the mapping, or the key of the unimproved image is in it.
C15_SequentialOrder ==
  /\ (pc = "loop" /\ idx = 1) =>
        /\ outdated = hist.loaded \ ScanHashes
        /\ assetInfo = hist.loaded \ outdated
        /\ hist.calls = <<>>
  /\ \A k \in 1..Len(hist.calls) :
        /\ hist.calls[k].path \in Range(images)
        /\ \A l \in 1..Len(hist.calls) :
              k < l => Pos(hist.calls[k].path) < Pos(hist.calls[l].path)
        /\ \/ Pos(hist.calls[k].path) < idx
           \/ /\ Pos(hist.calls[k].path) = idx
              /\ k = Len(hist.calls)
              /\ pc \in {"moved1", "moved2", "failed"}
  /\ pc \in {"loop", "done"} =>
        /\ optimized = NoContent
        /\ \A k \in 1..Len(hist.calls) :
              LET c == hist.calls[k] IN
                IF c.smaller # NoContent
                THEN /\ c.path \in DOMAIN fs
                     /\ fs[c.path] = c.smaller
                     /\ calculateHash(c.smaller) \in assetInfo
                ELSE HashOf(c.path) \in assetInfo

\* the loop is past two images that both went to the Compressor, the first
\* of which was replaced
C15_Witness ==
  /\ pc = "loop"
  /\ idx = 3
  /\ Len(hist.calls) = 2
  /\ hist.calls[1].path = images[1]
  /\ hist.calls[2].path = images[2]
  /\ hist.calls[1].smaller # NoContent
  /\ fs[images[1]] = hist.calls[1].smaller

\* the tree holds content c at path p
Holds(p, c) == p \in DOMAIN fs /\ fs[p] = c

\* C16: the replacement of an improved image goes original to backup, then
\* compressed bytes to the original path, then the unlink of the backup
\* unless save keeps it.  After the first move the backup holds the original
\* bytes and the original path is empty; after the second the backup still
\* holds them and the path holds the compressed bytes; a move that is
\* rejected leaves the original where it was.  In every state of a run, for
\* every image sent to the Compressor, the original bytes are at the path or
\* at the backup path, unless the compressed bytes are at the path.
C16_ReplaceProtocol ==
  /\ pc \in {"moved1", "moved2", "failed"} =>
        LET c == hist.calls[Len(hist.calls)]
            backup == createNewFilename(c.path)
        IN /\ c.path = images[idx]
           /\ pc = "moved1" => Holds(backup, c.content) /\ c.path \notin DOMAIN fs
           /\ pc = "moved2" => Holds(backup, c.content) /\ Holds(c.path, c.smaller)
           /\ pc = "failed" => Holds(c.path, c.content)
  /\ \A k \in 1..Len(hist.calls) :
        LET c == hist.calls[k] IN
          \/ Holds(c.path, c.content)
          \/ Holds(createNewFilename(c.path), c.content)
          \/ c.smaller # NoContent /\ Holds(c.path, c.smaller)

\* a replacement stands between its two moves: the original is at the backup
\* path and nothing is at the original path
C16_Witness ==
  /\ pc = "moved1"
  /\ images[idx] \notin DOMAIN fs
  /\ Holds(createNewFilename(images[idx]), hist.calls[Len(hist.calls)].content)

\* C17 (as claimed): once a run with save has replaced an image by compressed
\* bytes with another hash, the mapping holds both the hash of the compressed
\* bytes and the hash of the original bytes, which are those of the backup.
C17_SaveFinalizesBoth ==
  options.save =>
    \A k \in 1..Len(hist.calls) :
      (Handled(k) /\ hist.calls[k].smaller # NoContent) =>
         /\ calculateHash(hist.calls[k].smaller) \in assetInfo
         /\ calculateHash(hist.calls[k].content) \in assetInfo

\* C18 (as claimed): isProjectOptimized, called with the options of a run of
\* optimizeAsync that completed its loop and whose commit has landed, on the
\* tree the run left, answers true.
C18_CheckAgreesWithRun ==
  (pc = "checked" /\ hist.check.after = "done") => hist.check.result

\* C19: when the loop is about to recompute the hash of a replaced image,
\* the bytes saved are positive and the new hash differs from hashes[image],
\* so neither the identical-to-the-original branch nor the nothing-to-compress
\* report is taken; and under save every image replaced in the run has its
\* backup, holding the bytes it had when the run started.
C19_ImprovedHashDiffers ==
  /\ pc = "moved2" =>
        /\ HashOf(images[idx]) # calculateHash(fs[images[idx]])
        /\ Size(fs[createNewFilename(images[idx])]) - Size(optimized) > 0
  /\ options.save =>
        \A p \in hist.improved : Holds(createNewFilename(p), hist.fs0[p])

\* under save a hashed image has been replaced by smaller bytes and the loop
\* is about to recompute its hash
C19_Witness ==
  /\ pc = "moved2"
  /\ options.save
  /\ images[idx] \in DOMAIN hashes
  /\ hashes[images[idx]] # calculateHash(fs[images[idx]])
  /\ Holds(createNewFilename(images[idx]), hist.fs0[images[idx]])

\* C20 (as claimed): when optimizeAsync has reported completion the state
\* file holds the final in-memory mapping, and no write of it is still under
\* way.
C20_CommitLandedOnCompletion ==
  pc = "done" => /\ pending = <<>>
                 /\ stateFile = assetInfo

\* the files of allFiles that pass the include and exclude patterns given
FilteredCandidates ==
  LET Pass(p) == /\ options.include # NoPattern => Matches(options.include, p)
                 /\ options.exclude # NoPattern => ~Matches(options.exclude, p)
  IN SelectSeq(allFiles, Pass)

\* C10 (as claimed): selectedFiles is a subset of allFiles, namely the files
\* of allFiles that match the include pattern, if given, and do not match the
\* exclude pattern, if given.
C10_SelectedWithinAll ==
  /\ Range(selectedFiles) \subseteq Range(allFiles)
  /\ Range(selectedFiles) = Range(FilteredCandidates)

\* ---------------------------------------------- selection on its own
SelectionBundles ==
  {<<AnyPattern>>, <<ExtPattern("png")>>, <<ExtPattern("jpg"), ExtPattern("png")>>}

SelectionOptions ==
  [include : {NoPattern, AnyPattern, ExtPattern("png"), FilePattern("logo", "png")},
   exclude : {NoPattern, FilePattern("logo", "png"), ExtPattern("jpg")},
   save : {FALSE}]

SelectionInit ==
  /\ fs \in UNION {[S -> {0}] : S \in SUBSET SelectionPaths}
  /\ patterns \in SelectionBundles
  /\ options = [include |-> NoPattern, exclude |-> NoPattern, save |-> FALSE]
  /\ stateExists = FALSE
  /\ stateFile = {}
  /\ pending = <<>>
  /\ pc = "idle"
  /\ assetInfo = {}
  /\ outdated = {}
  /\ allFiles = <<>>
  /\ selectedFiles = <<>>
  /\ hashes = << >>
  /\ images = <<>>
  /\ idx = 1
  /\ optimized = NoContent
  /\ totalSaved = 0
  /\ edits = 0
  /\ hist = NoHist

\* one call of getAssetFilesAsync
Select ==
  /\ \E o \in SelectionOptions :
       /\ options' = o
       /\ allFiles' = getAssetFilesAsync(fs, patterns, o).allFiles
       /\ selectedFiles' = getAssetFilesAsync(fs, patterns, o).selectedFiles
  /\ UNCHANGED <<fs, patterns, stateExists, stateFile, pending, pc, assetInfo,
                 outdated, hashes, images, idx, optimized, totalSaved, edits,
                 hist>>

SelectionNext == Select

SelectionSpec == SelectionInit /\ [][SelectionNext]_vars

\* the example of the filter: include *.png and exclude logo.png over logo.png,
\* icon.png and photo.jpg, all three bundled
C10_Example ==
  (/\ DOMAIN fs = {Path("assets", "logo", 0, "png"), Path("assets", "icon", 0, "png"),
                   Path("assets", "photo", 0, "jpg")}
   /\ patterns = <<AnyPattern>>
   /\ options.include = ExtPattern("png")
   /\ options.exclude = FilePattern("logo", "png"))
  => /\ Range(selectedFiles) = {Path("assets", "icon", 0, "png")}
     /\ Range(allFiles) = DOMAIN fs
====
